---- MODULE Spec2Model ----
(***************************************************************************)
(* freepcb2pretty: a FreePCB library reader, an in-memory footprint model, *)
(* a sequence of optional transform passes and a KiCad s-expression        *)
(* emitter, modelled as the state machine that main() walks through.       *)
(*                                                                         *)
(* Representation.                                                         *)
(*  - A physical line is a record [half, key, val]: the count of leading   *)
(*    half-indents, the text before the first ":" (stripped) and the text  *)
(*    after it (stripped, with one level of surrounding quotes removed),   *)
(*    held as a sequence of tokens.  A module name is the sequence of its  *)
(*    characters; a numeric record is the sequence of its                  *)
(*    whitespace-separated fields.                                         *)
(*  - Lengths and coordinates are held in half-nanometres (twice the       *)
(*    nanometre value), so that a Python 3 true division by two stays      *)
(*    exact.  A value is an integer number of nanometres iff it is even.   *)
(*  - None for a string-valued field is the empty sequence; None for a pad *)
(*    is the empty sequence of pads.                                       *)
(***************************************************************************)
EXTENDS Integers, Sequences, FiniteSets, TLC

VARIABLES
    pc,        \* position of main(): load, strip, map3d, courtyard, hashtime, generate, done, error
    args,      \* the parsed command line (argparse namespace)
    fileNo,    \* index into args.infile of the next file to load
    library,   \* the merged Library
    handles,   \* input file handles currently open
    written,   \* the output files opened for writing so far, in order, with their contents
    err,       \* the exception that ended the run (kind "" while none)
    pinArg,    \* pure-function harness: the Pin handed to Pin.kicad_sexp
    pinRet,    \* pure-function harness: what Pin.kicad_sexp returned
    polyArg,   \* pure-function harness: the lines handed to Polyline.create_from_freepcb
    polyRet    \* pure-function harness: the polyline built from them and its kicad_sexp

vars == <<pc, args, fileNo, library, handles, written, err, pinArg, pinRet, polyArg, polyRet>>

--------------------------------------------------------------------------
(* Small helpers *)

None == <<>>

\* a 32-bit unsigned value (a timestamp) as two 16-bit limbs
Limbs(hi, lo) == [hi |-> hi, lo |-> lo]

Last(s) == s[Len(s)]

Front(s) == SubSeq(s, 1, Len(s) - 1)

RECURSIVE SeqMin(_)
SeqMin(s) == IF Len(s) = 1 THEN s[1]
             ELSE LET r == SeqMin(Tail(s)) IN IF s[1] < r THEN s[1] ELSE r

RECURSIVE SeqMax(_)
SeqMax(s) == IF Len(s) = 1 THEN s[1]
             ELSE LET r == SeqMax(Tail(s)) IN IF s[1] > r THEN s[1] ELSE r

--------------------------------------------------------------------------
(* Line Reader: class FreePCBfile *)

Line(half, key, val) == [half |-> half, key |-> key, val |-> val]

BlankLine == Line(0, "", <<>>)

\* "not line.strip ()": the line holds nothing but whitespace
IsBlank(l) == l.key = "" /\ l.val = <<>>

\* FreePCBfile.__init__: File[-1] is the head of the sequence
FreePCBfile(lines) == [File |-> lines, Lineno |-> 1]

\* the blank-line loop shared by get_string and at_end
RECURSIVE GobbleBlank(_)
GobbleBlank(ff) ==
    IF ff.File # <<>> /\ IsBlank(Head(ff.File))
    THEN GobbleBlank([File |-> Tail(ff.File), Lineno |-> ff.Lineno + 1])
    ELSE ff

\* at_end: pops leading blank lines, then reports whether anything is left
at_end(ff) == [ff |-> GobbleBlank(ff), result |-> GobbleBlank(ff).File = <<>>]

\* get_string: the parameter allow_blank is accepted and never read
get_string(ff, allow_blank) ==
    LET f1 == GobbleBlank(ff) IN
    IF f1.File = <<>>
    THEN [err |-> "AssertionError", ff |-> f1, key |-> "", value |-> <<>>]
    ELSE LET l  == Head(f1.File)
             f2 == [File |-> Tail(f1.File), Lineno |-> f1.Lineno + 1]
         IN  IF l.val = <<>>
             THEN [err |-> "expected value", ff |-> f2, key |-> l.key, value |-> <<>>]
             ELSE [err |-> "", ff |-> f2, key |-> l.key, value |-> l.val]

\* indent_level: reads File[-1] without any blank skipping; -1 stands for
\* the IndexError of an empty list
indent_level(ff) ==
    IF ff.File = <<>> THEN -1 ELSE Head(ff.File).half \div 2

\* peek_key: asserts that a line is left, then the key of File[-1], blank or not
peek_key(ff) ==
    IF ff.File = <<>> THEN [err |-> "AssertionError", key |-> ""]
    ELSE [err |-> "", key |-> Head(ff.File).key]

--------------------------------------------------------------------------
(* Record Grammar *)

\* int (): the decimal tokens the inputs use, with their values
IntTable ==
    ("0" :> 0) @@ ("1" :> 1) @@ ("2" :> 2) @@ ("3" :> 3) @@ ("4" :> 4) @@
    ("5" :> 5) @@ ("6" :> 6) @@ ("-1" :> -1) @@ ("-2" :> -2) @@ ("-4" :> -4) @@
    ("45" :> 45) @@ ("90" :> 90)

\* [int (i) for i in value.split ()]: <<>> flags the ValueError
IntList(value) ==
    IF \A i \in 1..Len(value) : value[i] \in DOMAIN IntTable
    THEN [err |-> "", ints |-> [i \in 1..Len(value) |-> IntTable[value[i]]]]
    ELSE [err |-> "ValueError", ints |-> <<>>]

\* parse_string: the leading (quoted or bare) string of a packed record and
\* the number of tokens it takes
parse_string(s) == [string |-> Head(s), length |-> 1]

\* an integer of the source, held in half-nanometres
Nm(n) == 2 * n

--------------------------------------------------------------------------
(* Geometric Model: parsing *)

\* what a parsing step hands back: the exception ("" for none), the reader
\* as the step left it, and the object built so far
Ret(e, ff, obj) == [err |-> e, ff |-> ff, obj |-> obj]

\* class Pad
Pad(value) ==
    LET v == IntList(value) IN
    IF v.err # "" \/ Len(v.ints) \notin {4, 5}
    THEN [err |-> "must contain a list of four or five integers", pad |-> None]
    ELSE [err |-> "",
          pad |-> [Shape   |-> v.ints[1],
                   Width   |-> Nm(v.ints[2]),
                   Len1    |-> Nm(v.ints[3]),
                   Len2    |-> Nm(v.ints[4]),
                   CornRad |-> IF Len(v.ints) = 4 THEN 0 ELSE Nm(v.ints[5])]]

\* Polyline.__init__
Polyline ==
    [kind |-> "Polyline", Points |-> <<>>, Linewidth |-> "None", Closed |-> FALSE,
     Layer |-> "F.SilkS", KicadLinewidth |-> "0.15"]

\* Polyline.create_from_freepcb: the next_corner loop
RECURSIVE NextCorners(_, _)
NextCorners(ff, pl) ==
    LET k == peek_key(ff) IN
    IF k.err # "" THEN Ret(k.err, ff, pl)
    ELSE IF k.key # "next_corner" THEN Ret("", ff, pl)
    ELSE LET g == get_string(ff, FALSE)
             v == IntList(g.value)
         IN  IF g.err # "" THEN Ret(g.err, g.ff, pl)
             ELSE IF v.err # "" \/ Len(v.ints) # 3
             THEN Ret("must contain a list of three integers", g.ff, pl)
             ELSE NextCorners(g.ff,
                     [pl EXCEPT !.Points = Append(@, <<Nm(v.ints[1]), Nm(v.ints[2])>>)])

\* Polyline.create_from_freepcb: the close_polyline record
ClosePolyline(ff, pl) ==
    LET k == peek_key(ff) IN
    IF k.err # "" THEN Ret(k.err, ff, pl)
    ELSE IF k.key # "close_polyline" THEN Ret("", ff, pl)
    ELSE LET g == get_string(ff, FALSE) IN
         IF g.err # "" THEN Ret(g.err, g.ff, pl)
         ELSE Ret("", g.ff, [pl EXCEPT !.Closed = TRUE,
                                       !.Points = Append(@, pl.Points[1])])

\* Polyline.create_from_freepcb: after the corner loop
AfterCorners(c) == IF c.err # "" THEN c ELSE ClosePolyline(c.ff, c.obj)

\* Polyline.create_from_freepcb: "First point and line width"
FirstPoint(g, v) ==
    IF g.err # "" THEN Ret(g.err, g.ff, Polyline)
    ELSE IF v.err # "" \/ Len(v.ints) # 3
    THEN Ret("must contain a list of three integers", g.ff, Polyline)
    ELSE AfterCorners(NextCorners(g.ff,
            [Polyline EXCEPT !.Linewidth = "0.15",
                             !.Points = <<<<Nm(v.ints[2]), Nm(v.ints[3])>>>>]))

\* Polyline.create_from_freepcb
Polyline_create_from_freepcb(ff) ==
    FirstPoint(get_string(ff, FALSE), IntList(get_string(ff, FALSE).value))

\* Pin.__init__
Pin(modname) ==
    [kind |-> "Pin", ModName |-> modname, Name |-> "None", DrillDiam |-> 0,
     Coords |-> <<>>, Angle |-> 0, TopPad |-> None, InnerPad |-> None,
     BottomPad |-> None]

\* str.endswith ("_pad") on the keys the inputs use
EndsWithPad(key) == key \in {"top_pad", "inner_pad", "bottom_pad", "side_pad"}

\* Pin.create_from_freepcb: the *_pad loop
RECURSIVE PadRecords(_, _)
PadRecords(ff, pin) ==
    LET k == peek_key(ff) IN
    IF k.err # "" THEN Ret(k.err, ff, pin)
    ELSE IF ~EndsWithPad(k.key) THEN Ret("", ff, pin)
    ELSE LET g == get_string(ff, FALSE)
             p == Pad(g.value)
         IN  IF g.err # "" THEN Ret(g.err, g.ff, pin)
             ELSE IF g.key \notin {"top_pad", "inner_pad", "bottom_pad"}
             THEN Ret("Unexpected key", g.ff, pin)
             ELSE IF p.err # "" THEN Ret(p.err, g.ff, pin)
             ELSE PadRecords(g.ff,
                     CASE g.key = "top_pad"    -> [pin EXCEPT !.TopPad = <<p.pad>>]
                       [] g.key = "inner_pad"  -> [pin EXCEPT !.InnerPad = <<p.pad>>]
                       [] g.key = "bottom_pad" -> [pin EXCEPT !.BottomPad = <<p.pad>>])

\* Pin.create_from_freepcb: the packed pin record
PinRecord(modname, g, v) ==
    IF g.err # "" THEN Ret(g.err, g.ff, Pin(modname))
    ELSE IF v.err # "" \/ Len(v.ints) # 4
    THEN Ret("must contain a list of four integers", g.ff, Pin(modname))
    ELSE PadRecords(g.ff,
            [Pin(modname) EXCEPT
                !.Name = parse_string(g.value).string,
                !.DrillDiam = Nm(v.ints[1]),
                !.Coords = <<Nm(v.ints[2]), Nm(v.ints[3])>>,
                !.Angle = v.ints[4]])

\* the text of a packed record after its leading string: value[length:]
AfterString(value) == SubSeq(value, parse_string(value).length + 1, Len(value))

\* Pin.create_from_freepcb
Pin_create_from_freepcb(modname, ff) ==
    PinRecord(modname, get_string(ff, FALSE), IntList(AfterString(get_string(ff, FALSE).value)))

\* PCBmodule.__init__: the fields as set before any record is read
NewModule ==
    [ThreeDName |-> None, ThreeDScale |-> <<"1.0", "1.0", "1.0">>,
     ThreeDOffset |-> <<"0.0", "0.0", "0.0">>, ThreeDRot |-> <<"0.0", "0.0", "0.0">>,
     Name |-> None, Author |-> None, Source |-> None, Description |-> None,
     Units |-> None, SelectionRect |-> None, RefText |-> None, ValText |-> None,
     Centroid |-> <<"0", "0", "0", "0">>, Graphics |-> <<>>, tedit |-> Limbs(0, 0)]

\* PCBmodule.__init__: the pre-indent loop
RECURSIVE PreIndent(_, _)
PreIndent(ff, m) ==
    IF indent_level(ff) = -1 THEN Ret("IndexError", ff, m)
    ELSE IF indent_level(ff) # 0 THEN Ret("", ff, m)
    ELSE IF at_end(ff).result THEN Ret("", at_end(ff).ff, m)
    ELSE LET g == get_string(at_end(ff).ff, FALSE) IN
         IF g.err # "" THEN Ret(g.err, g.ff, m)
         ELSE CASE g.key = "name"        -> PreIndent(g.ff, [m EXCEPT !.Name = g.value])
                [] g.key = "author"      -> PreIndent(g.ff, [m EXCEPT !.Author = g.value])
                [] g.key = "source"      -> PreIndent(g.ff, [m EXCEPT !.Source = g.value])
                [] g.key = "description" -> PreIndent(g.ff, [m EXCEPT !.Description = g.value])
                [] OTHER                 -> Ret("Unexpected key", g.ff, m)

\* PCBmodule.__init__: assert self.Name / Author / Source
PreIndentAsserts(m) == m.Name # None /\ m.Author # None /\ m.Source # None

\* PCBmodule.__init__: a scalar record of the post-indent loop
Scalar(ff, m, key) ==
    LET g == get_string(ff, FALSE) IN
    IF g.err # "" THEN Ret(g.err, g.ff, m)
    ELSE Ret("", g.ff,
             CASE key = "units"      -> [m EXCEPT !.Units = g.value]
               [] key = "sel_rect"   -> [m EXCEPT !.SelectionRect = g.value]
               [] key = "ref_text"   -> [m EXCEPT !.RefText = g.value]
               [] key = "value_text" -> [m EXCEPT !.ValText = g.value]
               [] key = "centroid"   -> [m EXCEPT !.Centroid = g.value])

\* PCBmodule.__init__: self.Graphics.append (...)
AppendGraphic(p, m) ==
    Ret(p.err, p.ff, IF p.err = "" THEN [m EXCEPT !.Graphics = Append(@, p.obj)] ELSE m)

\* PCBmodule.__init__: one record group of the post-indent loop
PostIndentRecord(ff, m, key) ==
    CASE key \in {"units", "sel_rect", "ref_text", "value_text", "centroid"} ->
            Scalar(ff, m, key)
      [] key = "outline_polyline" ->
            AppendGraphic(Polyline_create_from_freepcb(ff), m)
      [] key = "n_pins" ->
            Ret(get_string(ff, TRUE).err, get_string(ff, TRUE).ff, m)
      [] key = "pin" ->
            AppendGraphic(Pin_create_from_freepcb(m.Name, ff), m)
      [] OTHER -> Ret("Unexpected key", ff, m)

\* PCBmodule.__init__: the post-indent loop
RECURSIVE PostIndent(_, _)
RECURSIVE PostIndentNext(_)
PostIndent(ff, m) ==
    IF indent_level(ff) = -1 THEN Ret("IndexError", ff, m)
    ELSE IF indent_level(ff) = 0 THEN Ret("", ff, m)
    ELSE IF at_end(ff).result THEN Ret("", at_end(ff).ff, m)
    ELSE PostIndentNext(PostIndentRecord(at_end(ff).ff, m, peek_key(at_end(ff).ff).key))

\* PCBmodule.__init__: an exception leaves the post-indent loop, or it goes on
PostIndentNext(r) == IF r.err # "" THEN r ELSE PostIndent(r.ff, r.obj)

\* the closing asserts without the one on Units
PostIndentAsserts_NoUnits(m) ==
    /\ m.SelectionRect # None
    /\ m.RefText # None
    /\ m.Centroid = <<"0", "0", "0", "0">>

\* PCBmodule.__init__: the asserts that close the constructor
PostIndentAsserts(m) ==
    /\ m.Units = <<"NM">>
    /\ m.SelectionRect # None
    /\ m.RefText # None
    /\ m.Centroid = <<"0", "0", "0", "0">>

\* PCBmodule.__init__: from the end of the pre-indent loop to that of the post-indent loop
AfterPreIndent(h) ==
    IF h.err # "" THEN h
    ELSE IF ~PreIndentAsserts(h.obj) THEN Ret("AssertionError", h.ff, h.obj)
    ELSE PostIndent(h.ff, h.obj)

\* PCBmodule.__init__: from the end of the post-indent loop on; now is what
\* time.time () returns
AfterPostIndent(b, now) ==
    IF b.err # "" THEN b
    ELSE IF ~PostIndentAsserts(b.obj) THEN Ret("AssertionError", b.ff, b.obj)
    ELSE Ret("", b.ff, [b.obj EXCEPT !.tedit = now])

\* PCBmodule.__init__
PCBmodule(ff, now) == AfterPostIndent(AfterPreIndent(PreIndent(ff, NewModule)), now)

\* Library.__init__ with a file: obj is the list of modules
RECURSIVE LibraryModules(_, _, _)
RECURSIVE AppendModule(_, _, _)
LibraryModules(ff, mods, now) ==
    IF at_end(ff).result THEN Ret("", at_end(ff).ff, mods)
    ELSE AppendModule(PCBmodule(at_end(ff).ff, now), mods, now)

\* Library.__init__: self.Modules.append (PCBmodule (file_in, opts))
AppendModule(m, mods, now) ==
    IF m.err # "" THEN Ret(m.err, m.ff, mods)
    ELSE LibraryModules(m.ff, Append(mods, m.obj), now)

\* Library.__init__
Library(lines, now) == LibraryModules(FreePCBfile(lines), <<>>, now)

--------------------------------------------------------------------------
(* Library operations and transform passes *)

\* Library.__iadd__: the duplicate scan; the first colliding name, or None
Collision(selfMods, otherMods) ==
    LET hits == {p \in (1..Len(selfMods)) \X (1..Len(otherMods)) :
                    selfMods[p[1]].Name = otherMods[p[2]].Name}
    IN  IF hits = {} THEN None
        ELSE LET first == CHOOSE p \in hits :
                             \A q \in hits : p[1] < q[1] \/ (p[1] = q[1] /\ p[2] <= q[2])
             IN  <<selfMods[first[1]].Name>>

\* Library.__iadd__ with the raise left out: the lists are joined regardless
Library_iadd_NoRaise(self, other) ==
    [err |-> "", name |-> None,
     lib |-> [Modules |-> self.Modules \o other.Modules, opts |-> other.opts]]

\* Library.__iadd__
Library_iadd(self, other) ==
    IF Collision(self.Modules, other.Modules) # None
    THEN [err |-> "Duplicate module name", name |-> Collision(self.Modules, other.Modules)[1],
          lib |-> self]
    ELSE [err |-> "", name |-> None,
          lib |-> [Modules |-> self.Modules \o other.Modules, opts |-> other.opts]]

\* PCBmodule.strip_lmn carrying the new name into the module's pins as well
PCBmodule_strip_lmn_Renaming(m) ==
    IF m.Name = <<>> THEN [err |-> "IndexError", mod |-> m]
    ELSE IF Last(m.Name) \in {"L", "M", "N", "l", "m", "n"}
    THEN [err |-> "",
          mod |-> [m EXCEPT !.Name = Front(m.Name),
                            !.Graphics = [i \in 1..Len(m.Graphics) |->
                                IF m.Graphics[i].kind = "Pin"
                                THEN [m.Graphics[i] EXCEPT !.ModName = Front(m.Name)]
                                ELSE m.Graphics[i]]]]
    ELSE [err |-> "", mod |-> m]

\* PCBmodule.strip_lmn testing against "LMN" only
PCBmodule_strip_lmn_UpperOnly(m) ==
    IF m.Name = <<>> THEN [err |-> "IndexError", mod |-> m]
    ELSE IF Last(m.Name) \in {"L", "M", "N"}
    THEN [err |-> "", mod |-> [m EXCEPT !.Name = Front(m.Name)]]
    ELSE [err |-> "", mod |-> m]

\* PCBmodule.strip_lmn; Name[-1] of an empty name is an IndexError
PCBmodule_strip_lmn(m) ==
    IF m.Name = <<>> THEN [err |-> "IndexError", mod |-> m]
    ELSE IF Last(m.Name) \in {"L", "M", "N", "l", "m", "n"}
    THEN [err |-> "", mod |-> [m EXCEPT !.Name = Front(m.Name)]]
    ELSE [err |-> "", mod |-> m]

\* Library.strip_lmn
RECURSIVE Library_strip_lmn(_, _)
Library_strip_lmn(mods, i) ==
    IF i > Len(mods) THEN [err |-> "", mods |-> mods]
    ELSE LET r == PCBmodule_strip_lmn(mods[i]) IN
         IF r.err # "" THEN [err |-> r.err, mods |-> mods]
         ELSE Library_strip_lmn([mods EXCEPT ![i] = r.mod], i + 1)

\* Python version of the interpreter: "/" on two ints floors in 2, is exact in 3
PythonVersions == {2, 3}

\* sx / 2 on a length held in half-nanometres
HalfOf(h, py) == IF py = 3 THEN h \div 2 ELSE 2 * ((h \div 2) \div 2)

\* Polyline.bounding_box: (left, right, top, bottom)
Polyline_bounding_box(pl) ==
    LET xs == [i \in 1..Len(pl.Points) |-> pl.Points[i][1]]
        ys == [i \in 1..Len(pl.Points) |-> pl.Points[i][2]]
    IN  <<SeqMin(xs), SeqMax(xs), SeqMax(ys), SeqMin(ys)>>

\* Pin.bounding_box
Pin_bounding_box(pin, py) ==
    IF pin.TopPad = None THEN [err |-> "AttributeError", box |-> <<>>]
    ELSE IF pin.Angle \notin {0, 90} THEN [err |-> "AssertionError", box |-> <<>>]
    ELSE LET w  == pin.TopPad[1].Width
             l  == pin.TopPad[1].Len1 + pin.TopPad[1].Len2
             sx == IF pin.Angle = 90 THEN l ELSE w
             sy == IF pin.Angle = 90 THEN w ELSE l
         IN  [err |-> "",
              box |-> <<pin.Coords[1] - HalfOf(sy, py), pin.Coords[1] + HalfOf(sy, py),
                        pin.Coords[2] + HalfOf(sx, py), pin.Coords[2] - HalfOf(sx, py)>>]

\* bounding_box of one graphic element
Graphic_bounding_box(g, py) ==
    IF g.kind = "Pin" THEN Pin_bounding_box(g, py)
    ELSE [err |-> "", box |-> Polyline_bounding_box(g)]

\* PCBmodule.bounding_box; min () of an empty list is a ValueError
PCBmodule_bounding_box(m, py) ==
    LET n   == Len(m.Graphics)
        sub == [i \in 1..n |-> Graphic_bounding_box(m.Graphics[i], py)]
        bad == {i \in 1..n : sub[i].err # ""}
    IN  IF bad # {} THEN [err |-> sub[CHOOSE i \in bad : \A j \in bad : i <= j].err, box |-> <<>>]
        ELSE IF n = 0 THEN [err |-> "ValueError", box |-> <<>>]
        ELSE [err |-> "",
              box |-> <<SeqMin([i \in 1..n |-> sub[i].box[1]]),
                        SeqMax([i \in 1..n |-> sub[i].box[2]]),
                        SeqMax([i \in 1..n |-> sub[i].box[3]]),
                        SeqMin([i \in 1..n |-> sub[i].box[4]])>>]

\* from_mm: a spacing of num/den millimetres, in half-nanometres
from_mm(f) == (f.num * 2000000) \div f.den

\* PCBmodule.add_courtyard: the polyline it builds from the bounding box
Courtyard(box, spacing) ==
    LET left   == box[1] - from_mm(spacing)
        right  == box[2] + from_mm(spacing)
        top    == box[3] + from_mm(spacing)
        bottom == box[4] - from_mm(spacing)
    IN  [Polyline EXCEPT
            !.Points = <<<<left, top>>, <<right, top>>, <<right, bottom>>,
                         <<left, bottom>>, <<left, top>>>>,
            !.KicadLinewidth = "0.05",
            !.Layer = "F.CrtYd"]

\* PCBmodule.add_courtyard
PCBmodule_add_courtyard(m, spacing, py) ==
    LET bb == PCBmodule_bounding_box(m, py) IN
    IF bb.err # "" THEN [err |-> bb.err, mod |-> m]
    ELSE [err |-> "", mod |-> [m EXCEPT !.Graphics = Append(@, Courtyard(bb.box, spacing))]]

\* main: for i in library.Modules: i.add_courtyard (args.courtyard)
RECURSIVE AddCourtyards(_, _, _, _)
AddCourtyards(mods, i, spacing, py) ==
    IF i > Len(mods) THEN [err |-> "", mods |-> mods]
    ELSE LET r == PCBmodule_add_courtyard(mods[i], spacing, py) IN
         IF r.err # "" THEN [err |-> r.err, mods |-> mods]
         ELSE AddCourtyards([mods EXCEPT ![i] = r.mod], i + 1, spacing, py)

--------------------------------------------------------------------------
(* Expression Emitter *)

\* to_mm: float (n) / 1000000. of a value in half-nanometres, as sign, whole
\* millimetres and the remaining half-nanometres
to_mm(h) ==
    LET a == IF h < 0 THEN -h ELSE h IN
    [neg |-> h < 0, whole |-> a \div 2000000, frac |-> a % 2000000]

\* unary minus on a float: flips the sign, of zero too
FloatNeg(f) == [f EXCEPT !.neg = ~@]

\* regex.match (name): the patterns are literal texts, matched at the start
RegexMatch(pattern, name) ==
    Len(pattern) <= Len(name) /\ SubSeq(name, 1, Len(pattern)) = pattern

\* Polyline.kicad_sexp with the vertical axis left as in the source data
Polyline_kicad_sexp_NoFlip(pl) ==
    [k \in 1..(Len(pl.Points) - 1) |->
        [tag   |-> "fp_line",
         start |-> <<to_mm(pl.Points[k][1]), to_mm(pl.Points[k][2])>>,
         end   |-> <<to_mm(pl.Points[k + 1][1]), to_mm(pl.Points[k + 1][2])>>,
         layer |-> pl.Layer,
         width |-> pl.KicadLinewidth]]

\* Polyline.kicad_sexp
Polyline_kicad_sexp(pl) ==
    [k \in 1..(Len(pl.Points) - 1) |->
        [tag   |-> "fp_line",
         start |-> <<to_mm(pl.Points[k][1]), to_mm(-pl.Points[k][2])>>,
         end   |-> <<to_mm(pl.Points[k + 1][1]), to_mm(-pl.Points[k + 1][2])>>,
         layer |-> pl.Layer,
         width |-> pl.KicadLinewidth]]

\* Pin.kicad_sexp with the center exception applied wherever the pin sits
SmdShape_CenterAnywhere(pin, opts) ==
    LET can_round_pads ==
            ~\E i \in 1..Len(opts.rpexceptions) : RegexMatch(opts.rpexceptions[i], pin.ModName)
        can_round_center ==
            ~\E i \in 1..Len(opts.rcexceptions) : RegexMatch(opts.rcexceptions[i], pin.ModName)
    IN  IF opts.roundedpads = "None" THEN "rect"
        ELSE IF ~can_round_center THEN "rect"
        ELSE IF opts.roundedpads = "all"
        THEN (IF can_round_pads THEN "oval" ELSE "rect")
        ELSE (IF can_round_pads THEN (IF pin.Name = "1" THEN "rect" ELSE "oval") ELSE "rect")

\* Pin.kicad_sexp: the shape of a surface-mount pad
SmdShape(pin, opts) ==
    LET can_round_pads ==
            ~\E i \in 1..Len(opts.rpexceptions) : RegexMatch(opts.rpexceptions[i], pin.ModName)
        can_round_center ==
            ~\E i \in 1..Len(opts.rcexceptions) : RegexMatch(opts.rcexceptions[i], pin.ModName)
    IN  IF opts.roundedpads = "None" THEN "rect"
        ELSE IF ~can_round_center /\ <<0, 0>> = pin.Coords THEN "rect"
        ELSE IF opts.roundedpads = "all"
        THEN (IF can_round_pads THEN "oval" ELSE "rect")
        ELSE IF opts.roundedpads = "allbut1"
        THEN (IF can_round_pads THEN (IF pin.Name = "1" THEN "rect" ELSE "oval") ELSE "rect")
        ELSE "AssertionError"

\* Pin.kicad_sexp with the pin name compared to the number 1, never equal to a string
PthShape_NumberOne(pin) == "circle"

\* Pin.kicad_sexp: the shape of a through-hole pad
PthShape(pin) == IF pin.Name = "1" THEN "rect" ELSE "circle"

\* Pin.kicad_sexp
Pin_kicad_sexp(pin, opts) ==
    IF pin.TopPad = None THEN [err |-> "AttributeError", sexp |-> <<>>]
    ELSE IF pin.Angle \notin {0, 90} THEN [err |-> "AssertionError", sexp |-> <<>>]
    ELSE LET w  == pin.TopPad[1].Width
             l  == pin.TopPad[1].Len1 + pin.TopPad[1].Len2
             sx == IF pin.Angle = 90 THEN l ELSE w
             sy == IF pin.Angle = 90 THEN w ELSE l
             at == <<to_mm(pin.Coords[1]), FloatNeg(to_mm(pin.Coords[2]))>>
         IN  IF pin.DrillDiam = 0
             THEN IF SmdShape(pin, opts) = "AssertionError"
                  THEN [err |-> "AssertionError", sexp |-> <<>>]
                  ELSE [err |-> "",
                        sexp |-> <<[tag |-> "pad", name |-> pin.Name, type |-> "smd",
                                    shape |-> SmdShape(pin, opts), at |-> at,
                                    size |-> <<to_mm(sy), to_mm(sx)>>,
                                    drill |-> <<>>,
                                    layers |-> <<"F.Cu", "F.Paste", "F.Mask">>]>>]
             ELSE [err |-> "",
                   sexp |-> <<[tag |-> "pad", name |-> pin.Name, type |-> "thru_hole",
                               shape |-> PthShape(pin), at |-> at,
                               size |-> <<to_mm(sy), to_mm(sx)>>,
                               drill |-> <<to_mm(pin.DrillDiam)>>,
                               layers |-> <<"*.Cu", "*.Mask">>]>>]

\* the elements of s of one class, in order (isinstance)
RECURSIVE OfKind(_, _)
OfKind(s, kind) ==
    IF s = <<>> THEN <<>>
    ELSE (IF Head(s).kind = kind THEN <<Head(s)>> ELSE <<>>) \o OfKind(Tail(s), kind)

\* PCBmodule.kicad_sexp: sexp.extend (i.kicad_sexp ()) over the polylines
RECURSIVE PolylineEntries(_)
PolylineEntries(pls) ==
    IF pls = <<>> THEN <<>>
    ELSE Polyline_kicad_sexp(Head(pls)) \o PolylineEntries(Tail(pls))

\* PCBmodule.kicad_sexp: sexp.extend (i.kicad_sexp ()) over the pins
RECURSIVE PadEntries(_, _)
PadEntries(pins, opts) ==
    IF pins = <<>> THEN [err |-> "", sexp |-> <<>>]
    ELSE LET p == Pin_kicad_sexp(Head(pins), opts)
             r == PadEntries(Tail(pins), opts)
         IN  IF p.err # "" THEN p
             ELSE IF r.err # "" THEN r
             ELSE [err |-> "", sexp |-> p.sexp \o r.sexp]

\* "%X" of a 16-bit limb, four digits
Hex4(n) == [i \in 1..4 |-> (n \div (16 ^ (4 - i))) % 16]

\* "%08X" % int (self.tedit)
Hex08X(t) == Hex4(t.hi) \o Hex4(t.lo)

\* PCBmodule.kicad_sexp
PCBmodule_kicad_sexp(m, opts) ==
    LET pads == PadEntries(OfKind(m.Graphics, "Pin"), opts) IN
    IF pads.err # "" THEN [err |-> pads.err, sexp |-> <<>>]
    ELSE [err |-> "",
          sexp |-> <<[tag   |-> "module",
                      name  |-> m.Name,
                      layer |-> "F.Cu",
                      tedit |-> Hex08X(m.tedit),
                      descr |-> m.Description,
                      attr  |-> "smd",
                      reference |-> "REF**",
                      value |-> m.Name,
                      lines |-> PolylineEntries(OfKind(m.Graphics, "Polyline")),
                      pads  |-> pads.sexp,
                      model |-> IF m.ThreeDName = None THEN <<>>
                                ELSE <<[tag |-> "model", name |-> m.ThreeDName,
                                        at |-> m.ThreeDOffset, scale |-> m.ThreeDScale,
                                        rotate |-> m.ThreeDRot]>>]>>]

--------------------------------------------------------------------------
(* Deterministic timestamp *)

\* the code point of each text the emitted trees can hold, for str ().encode ()
Code ==
    ("A" :> 65) @@ ("B" :> 66) @@ ("C" :> 67) @@ ("L" :> 76) @@ ("M" :> 77) @@
    ("N" :> 78) @@ ("a" :> 97) @@ ("d" :> 100) @@ ("s" :> 115) @@ ("1" :> 49) @@
    ("2" :> 50) @@ ("smd" :> 301) @@ ("thru_hole" :> 302) @@ ("rect" :> 303) @@
    ("oval" :> 304) @@ ("circle" :> 305) @@ ("F.SilkS" :> 306) @@ ("F.CrtYd" :> 307) @@
    ("0.15" :> 308) @@ ("0.05" :> 309) @@ ("0.0" :> 310) @@ ("1.0" :> 311) @@
    ("2.0" :> 312) @@ ("90.0" :> 313)

Codes(s) == [i \in 1..Len(s) |-> Code[s[i]]]

FloatText(f) == <<IF f.neg THEN 1 ELSE 0, f.whole, f.frac>>

RECURSIVE Flatten(_)
Flatten(ss) == IF ss = <<>> THEN <<>> ELSE Head(ss) \o Flatten(Tail(ss))

\* str (sexp): the text of an emitted module tree, as a sequence of numbers
SexpText(x) ==
    Codes(x.name) \o x.tedit \o Codes(x.descr)
    \o Flatten([k \in 1..Len(x.lines) |->
          FloatText(x.lines[k].start[1]) \o FloatText(x.lines[k].start[2])
          \o FloatText(x.lines[k].end[1]) \o FloatText(x.lines[k].end[2])
          \o Codes(<<x.lines[k].layer, x.lines[k].width>>)])
    \o Flatten([k \in 1..Len(x.pads) |->
          Codes(<<x.pads[k].name, x.pads[k].type, x.pads[k].shape>>)
          \o FloatText(x.pads[k].at[1]) \o FloatText(x.pads[k].at[2])
          \o FloatText(x.pads[k].size[1]) \o FloatText(x.pads[k].size[2])
          \o Flatten([j \in 1..Len(x.pads[k].drill) |-> FloatText(x.pads[k].drill[j])])])
    \o Flatten([k \in 1..Len(x.model) |->
          Codes(x.model[k].name) \o Codes(x.model[k].at) \o Codes(x.model[k].scale)
          \o Codes(x.model[k].rotate)])

\* hashlib.md5 followed by struct.unpack ("<L", md5sum[0:4]): a 32-bit digest
\* of text[i..j] (a multiplicative tree hash stands in for MD5), kept as
\* 16-bit limbs; the arithmetic is modulo 2^32
RECURSIVE Digest32(_, _, _)
Digest32(text, i, j) ==
    IF i > j THEN Limbs(0, 0)
    ELSE IF i = j THEN Limbs(0, text[i] % 65536)
    ELSE LET mid == (i + j) \div 2
             a   == Digest32(text, i, mid)
             b   == Digest32(text, mid + 1, j)
             lo  == a.lo * 31 + b.lo * 17 + 7
             hi  == a.hi * 31 + b.hi * 17 + (lo \div 65536)
         IN  Limbs(hi % 65536, lo % 65536)

\* md5 of str (sexp), low 32 bits
Md5Low32(sexp) == Digest32(SexpText(sexp), 1, Len(SexpText(sexp)))

\* the hash-time loop body without "i.tedit = 0": the digest covers the clock value
HashTime_NoZero(m, opts) ==
    LET x == PCBmodule_kicad_sexp(m, opts) IN
    IF x.err # "" THEN [err |-> x.err, mod |-> m]
    ELSE [err |-> "", mod |-> [m EXCEPT !.tedit = Md5Low32(x.sexp[1])]]

\* the hash-time loop body with an emitter whose "sx, sy = sy, sx" exchanges
\* the fields of the pad itself
HashTime_Swapping(m, opts) ==
    LET zeroed == [m EXCEPT !.tedit = Limbs(0, 0)]
        x      == PCBmodule_kicad_sexp(zeroed, opts)
        swap(g) == IF g.kind = "Pin" /\ g.Angle = 90 /\ g.TopPad # None
                   THEN [g EXCEPT !.TopPad = <<[g.TopPad[1] EXCEPT
                                     !.Width = g.TopPad[1].Len1, !.Len1 = g.TopPad[1].Width]>>]
                   ELSE g
    IN  IF x.err # "" THEN [err |-> x.err, mod |-> zeroed]
        ELSE [err |-> "",
              mod |-> [zeroed EXCEPT !.tedit = Md5Low32(x.sexp[1]),
                                     !.Graphics = [i \in 1..Len(zeroed.Graphics) |->
                                                      swap(zeroed.Graphics[i])]]]

\* main: the body of the hash-time loop for one module
HashTime(m, opts) ==
    LET zeroed == [m EXCEPT !.tedit = Limbs(0, 0)]
        x      == PCBmodule_kicad_sexp(zeroed, opts)
    IN  IF x.err # "" THEN [err |-> x.err, mod |-> zeroed]
        ELSE [err |-> "", mod |-> [zeroed EXCEPT !.tedit = Md5Low32(x.sexp[1])]]

\* main: for i in library.Modules under args.hashtime
RECURSIVE HashTimes(_, _, _)
HashTimes(mods, i, opts) ==
    IF i > Len(mods) THEN [err |-> "", mods |-> mods]
    ELSE LET r == HashTime(mods[i], opts) IN
         IF r.err # "" THEN [err |-> r.err, mods |-> [mods EXCEPT ![i] = r.mod]]
         ELSE HashTimes([mods EXCEPT ![i] = r.mod], i + 1, opts)

--------------------------------------------------------------------------
(* 3D map *)

\* the characters of each key a 3D map can hold
KeyChars ==
    ("mod" :> <<"m", "o", "d">>) @@ ("3dmod" :> <<"3", "d", "m", "o", "d">>) @@
    ("rotx" :> <<"r", "o", "t", "x">>) @@ ("rotz" :> <<"r", "o", "t", "z">>) @@
    ("scay" :> <<"s", "c", "a", "y">>) @@ ("offz" :> <<"o", "f", "f", "z">>) @@
    ("rotw" :> <<"r", "o", "t", "w">>) @@ ("rota" :> <<"r", "o", "t", "a">>) @@
    ("rot" :> <<"r", "o", "t">>) @@ ("name" :> <<"n", "a", "m", "e">>)

\* ord ()
Ord == ("a" :> 97) @@ ("w" :> 119) @@ ("x" :> 120) @@ ("y" :> 121) @@ ("z" :> 122)

\* float (value) on the texts the 3D maps use, as the text str () gives back
FloatTable == ("0" :> "0.0") @@ ("1" :> "1.0") @@ ("2" :> "2.0") @@ ("90" :> "90.0")

\* vector[ord (key[3]) - ord ('x')] = float (value) on a list of three
SetAxis(vector, key, value) ==
    IF Len(KeyChars[key]) < 4 THEN [err |-> "IndexError", vector |-> vector]
    ELSE LET index == Ord[KeyChars[key][4]] - Ord["x"] IN
         IF Len(value) # 1 \/ value[1] \notin DOMAIN FloatTable
         THEN [err |-> "ValueError", vector |-> vector]
         ELSE IF index \notin -3..2 THEN [err |-> "IndexError", vector |-> vector]
         ELSE [err |-> "",
               vector |-> [vector EXCEPT ![((index + 3) % 3) + 1] = FloatTable[value[1]]]]

\* process_3dmap: the record loop; cur is the index of current_module, 0 for None
RECURSIVE Map3dRecords(_, _, _)
Map3dRecords(ff, mods, cur) ==
    IF at_end(ff).result THEN [err |-> "", mods |-> mods]
    ELSE LET g    == get_string(at_end(ff).ff, FALSE)
             hits == {i \in 1..Len(mods) : mods[i].Name = g.value}
             pre  == SubSeq(KeyChars[g.key], 1, 3)
         IN  IF g.err # "" THEN [err |-> g.err, mods |-> mods]
             ELSE IF g.key = "mod"
             THEN IF hits = {} THEN [err |-> "couldn't find module", mods |-> mods]
                  ELSE Map3dRecords(g.ff, mods, CHOOSE i \in hits : \A j \in hits : i <= j)
             ELSE IF g.key = "3dmod"
             THEN IF cur = 0 THEN [err |-> "cannot specify parameters before module name", mods |-> mods]
                  ELSE Map3dRecords(g.ff, [mods EXCEPT ![cur].ThreeDName = g.value], cur)
             ELSE IF pre \in {<<"r", "o", "t">>, <<"s", "c", "a">>, <<"o", "f", "f">>}
             THEN IF cur = 0 THEN [err |-> "cannot specify parameters before module name", mods |-> mods]
                  ELSE LET field == CASE pre = <<"r", "o", "t">> -> mods[cur].ThreeDRot
                                      [] pre = <<"s", "c", "a">> -> mods[cur].ThreeDScale
                                      [] pre = <<"o", "f", "f">> -> mods[cur].ThreeDOffset
                           r == SetAxis(field, g.key, g.value)
                       IN  IF r.err # "" THEN [err |-> r.err, mods |-> mods]
                           ELSE Map3dRecords(g.ff,
                                  CASE pre = <<"r", "o", "t">> -> [mods EXCEPT ![cur].ThreeDRot = r.vector]
                                    [] pre = <<"s", "c", "a">> -> [mods EXCEPT ![cur].ThreeDScale = r.vector]
                                    [] pre = <<"o", "f", "f">> -> [mods EXCEPT ![cur].ThreeDOffset = r.vector],
                                  cur)
             ELSE [err |-> "unknown key", mods |-> mods]

\* process_3dmap
process_3dmap(lines, mods) == Map3dRecords(FreePCBfile(lines), mods, 0)

--------------------------------------------------------------------------
(* The inputs of a run: the files on disk and the command line *)

MaxInfiles == 2

MaxClock == 2

NameA == <<"A">>
NameBL == <<"B", "L">>
NameBM == <<"B", "M">>
NameC == <<"C">>
NameN == <<"N">>

Header(name) ==
    <<Line(0, "name", name), Line(0, "author", <<"a">>), Line(0, "source", <<"s">>),
      Line(0, "description", <<"d">>)>>

Scalars(units, centroid) ==
    <<Line(2, "units", units), Line(2, "sel_rect", <<"0", "0", "1", "1">>),
      Line(2, "ref_text", <<"1", "0", "0", "0", "1">>), Line(2, "centroid", centroid)>>

Body == Scalars(<<"NM">>, <<"0", "0", "0", "0">>)

Outline ==
    <<Line(2, "outline_polyline", <<"1", "-2", "-1">>),
      Line(4, "next_corner", <<"2", "-1", "0">>),
      Line(4, "next_corner", <<"2", "1", "0">>),
      Line(4, "close_polyline", <<"0">>)>>

SmdPin(name, x, angle) ==
    <<Line(4, "pin", <<name, "0", x, "0", angle>>),
      Line(6, "top_pad", <<"1", "1", "2", "1">>)>>

SmdPins == <<Line(2, "n_pins", <<"2">>)>> \o SmdPin("1", "0", "0") \o SmdPin("2", "4", "90")

PthPins ==
    <<Line(2, "n_pins", <<"2">>),
      Line(4, "pin", <<"1", "3", "-4", "0", "0">>),
      Line(6, "top_pad", <<"1", "2", "1", "1", "0">>),
      Line(6, "inner_pad", <<"1", "2", "1", "1", "0">>),
      Line(6, "bottom_pad", <<"1", "2", "1", "1", "0">>),
      Line(4, "pin", <<"2", "3", "4", "0", "0">>),
      Line(6, "top_pad", <<"1", "2", "1", "1", "0">>)>>

ModuleA == Header(NameA) \o Body \o Outline \o SmdPins

ModuleOf(name) == Header(name) \o Body \o <<Line(2, "n_pins", <<"1">>)>> \o SmdPin("1", "0", "0")

\* the FreePCB library files on disk
FileContent ==
    ("good"     :> ModuleA \o <<BlankLine>> \o Header(NameBL) \o Body \o PthPins \o <<BlankLine>>) @@
    ("bm"       :> ModuleOf(NameBM) \o <<BlankLine>>) @@
    ("a2"       :> Header(NameA) \o Body \o Outline \o <<BlankLine>>) @@
    ("dup"      :> ModuleOf(NameC) \o ModuleOf(NameC) \o <<BlankLine>>) @@
    ("n"        :> ModuleOf(NameN) \o <<BlankLine>>) @@
    ("mil"      :> Header(NameC) \o Scalars(<<"MIL">>, <<"0", "0", "0", "0">>) \o <<BlankLine>>) @@
    ("centroid" :> Header(NameC) \o Scalars(<<"NM">>, <<"1", "0", "0", "0">>) \o <<BlankLine>>) @@
    ("gap"      :> Header(NameC) \o <<BlankLine>> \o Body \o <<BlankLine>>) @@
    ("bodygap"  :> Header(NameC) \o Body \o <<BlankLine>> \o Outline \o <<BlankLine>>) @@
    ("polygap"  :> Header(NameC) \o Body \o SubSeq(Outline, 1, 2) \o <<BlankLine>>
                     \o SubSeq(Outline, 3, 4) \o <<BlankLine>>) @@
    ("noeol"    :> ModuleOf(NameC)) @@
    ("hdrgap"   :> SubSeq(Header(NameC), 1, 2) \o <<BlankLine>> \o SubSeq(Header(NameC), 3, 4)
                     \o Body \o Outline \o <<BlankLine, BlankLine>>) @@
    ("angle45"  :> ModuleOf(NameC) \o <<BlankLine>> \o Header(NameBL) \o Body
                     \o SmdPin("1", "2", "45") \o <<BlankLine>>) @@
    ("nopad"    :> Header(NameC) \o Body \o <<Line(4, "pin", <<"1", "0", "0", "0", "0">>), BlankLine>>) @@
    ("bare"     :> Header(NameC) \o Body \o <<BlankLine>>) @@
    ("badkey"   :> Header(NameC) \o Body \o <<Line(2, "text", <<"1">>), BlankLine>>) @@
    ("badint"   :> Header(NameC) \o Body \o <<Line(2, "outline_polyline", <<"1", "NM", "0">>), BlankLine>>) @@
    ("badpad"   :> Header(NameC) \o Body \o <<Line(4, "pin", <<"1", "0", "0", "0", "0">>),
                     Line(6, "side_pad", <<"1", "2", "1", "1">>), BlankLine>>) @@
    ("noauthor" :> <<Line(0, "name", NameC), Line(0, "source", <<"s">>)>> \o Body \o <<BlankLine>>) @@
    ("npins"    :> Header(NameC) \o Body \o <<Line(2, "n_pins", <<>>)>> \o SmdPin("1", "0", "0")
                     \o <<BlankLine>>) @@
    ("empty"    :> <<>>)

FileNames == DOMAIN FileContent

\* the files given together on one command line
MergeFiles == {"good", "bm", "a2"}

InfileLists ==
    {<<>>} \cup {<<f>> : f \in FileNames}
    \cup UNION {[1..n -> MergeFiles] : n \in 2..MaxInfiles}

\* the 3D map files on disk
MapContent ==
    ("mapA"    :> <<Line(0, "mod", NameA), Line(0, "3dmod", <<"M">>), BlankLine,
                    Line(0, "rotz", <<"90">>), Line(0, "scay", <<"2">>), Line(0, "offz", <<"1">>)>>) @@
    ("mapC"    :> <<Line(0, "mod", NameC), Line(0, "3dmod", <<"M">>), Line(0, "rotw", <<"90">>)>>) @@
    ("mapEarly" :> <<Line(0, "3dmod", <<"M">>)>>) @@
    ("mapKey"  :> <<Line(0, "mod", NameC), Line(0, "name", <<"M">>)>>)

MapNames == DOMAIN MapContent

\* time.time () at the moments a file can be loaded
Clocks == {Limbs(0, t) : t \in 1..MaxClock}

\* --add-courtyard values: num/den millimetres
Spacings == {[num |-> 0, den |-> 1], [num |-> 3, den |-> 2000000]}

\* the rounded-pad settings: mode and the two compiled exception lists
Roundings ==
    {[roundedpads |-> "None", rpexceptions |-> <<>>, rcexceptions |-> <<>>],
     [roundedpads |-> "all", rpexceptions |-> <<>>, rcexceptions |-> <<NameBM>>],
     [roundedpads |-> "allbut1", rpexceptions |-> <<<<"B">>>>, rcexceptions |-> <<NameA>>]}

\* the argparse namespace main works from
Args ==
    {[infile |-> f, threedmap |-> t, roundedpads |-> r.roundedpads,
      rpexceptions |-> r.rpexceptions, rcexceptions |-> r.rcexceptions,
      strip_lmn |-> s, courtyard |-> c, hashtime |-> h] :
        f \in InfileLists, t \in {None} \cup {<<n>> : n \in MapNames}, r \in Roundings,
        s \in BOOLEAN, c \in {None} \cup {<<x>> : x \in Spacings}, h \in BOOLEAN}

--------------------------------------------------------------------------
(* main *)

NoPin == Pin(None)

\* no exception so far
NoError == [kind |-> "", name |-> None]

\* main, at "Main conversion": library = Library ()
Init ==
    /\ args \in Args
    /\ pc = "load"
    /\ fileNo = 1
    /\ library = [Modules |-> <<>>, opts |-> "None"]
    /\ handles = {}
    /\ written = <<>>
    /\ err = NoError
    /\ pinArg = NoPin
    /\ pinRet = <<>>
    /\ polyArg = <<>>
    /\ polyRet = <<>>

\* an exception leaves main; name is the module a duplicate error names
Raise(e, name) == pc' = "error" /\ err' = [kind |-> e, name |-> name]

\* main: sublibrary = Library (ff, args); library += sublibrary
LoadInto(lib, sub) ==
    IF sub.err # "" THEN [err |-> sub.err, name |-> None, lib |-> lib]
    ELSE Library_iadd(lib, [Modules |-> sub.obj, opts |-> "args"])

\* main: f.close () is reached only when nothing was raised
Loaded(r, name) ==
    IF r.err # ""
    THEN /\ Raise(r.err, r.name)
         /\ handles' = handles \cup {name}
         /\ UNCHANGED <<library, fileNo>>
    ELSE /\ library' = r.lib
         /\ fileNo' = fileNo + 1
         /\ UNCHANGED <<pc, err, handles>>

\* main: one turn of "for filename in args.infile"
LoadFile ==
    /\ pc = "load"
    /\ fileNo <= Len(args.infile)
    /\ \E now \in Clocks :
         Loaded(LoadInto(library, Library(FileContent[args.infile[fileNo]], now)),
                args.infile[fileNo])
    /\ UNCHANGED <<args, written, pinArg, pinRet, polyArg, polyRet>>

\* main: the file loop is exhausted and zipfile is None
EndLoad ==
    /\ pc = "load"
    /\ fileNo > Len(args.infile)
    /\ pc' = "strip"
    /\ UNCHANGED <<args, fileNo, library, handles, written, err, pinArg, pinRet, polyArg, polyRet>>

\* main: "Strip L/M/N?"
StripLmn ==
    /\ pc = "strip"
    /\ IF args.strip_lmn
       THEN LET r == Library_strip_lmn(library.Modules, 1) IN
            /\ library' = [library EXCEPT !.Modules = r.mods]
            /\ IF r.err # "" THEN Raise(r.err, None) ELSE pc' = "map3d" /\ err' = err
       ELSE pc' = "map3d" /\ UNCHANGED <<library, err>>
    /\ UNCHANGED <<args, fileNo, handles, written, pinArg, pinRet, polyArg, polyRet>>

\* main: "Add 3D models"; process_3dmap opens the map and never closes it
Add3dModels ==
    /\ pc = "map3d"
    /\ IF args.threedmap # None
       THEN LET r == process_3dmap(MapContent[args.threedmap[1]], library.Modules) IN
            /\ library' = [library EXCEPT !.Modules = r.mods]
            /\ handles' = handles \cup {args.threedmap[1]}
            /\ IF r.err # "" THEN Raise(r.err, None) ELSE pc' = "courtyard" /\ err' = err
       ELSE pc' = "courtyard" /\ UNCHANGED <<library, handles, err>>
    /\ UNCHANGED <<args, fileNo, written, pinArg, pinRet, polyArg, polyRet>>

\* main: "Add courtyards"
AddCourtyard ==
    /\ pc = "courtyard"
    /\ IF args.courtyard # None
       THEN \E py \in PythonVersions :
              LET r == AddCourtyards(library.Modules, 1, args.courtyard[1], py) IN
              /\ library' = [library EXCEPT !.Modules = r.mods]
              /\ IF r.err # "" THEN Raise(r.err, None) ELSE pc' = "hashtime" /\ err' = err
       ELSE pc' = "hashtime" /\ UNCHANGED <<library, err>>
    /\ UNCHANGED <<args, fileNo, handles, written, pinArg, pinRet, polyArg, polyRet>>

\* main: "Fake timestamps?"
FakeTimestamps ==
    /\ pc = "hashtime"
    /\ IF args.hashtime
       THEN LET r == HashTimes(library.Modules, 1, args) IN
            /\ library' = [library EXCEPT !.Modules = r.mods]
            /\ IF r.err # "" THEN Raise(r.err, None) ELSE pc' = "generate" /\ err' = err
       ELSE pc' = "generate" /\ UNCHANGED <<library, err>>
    /\ UNCHANGED <<args, fileNo, handles, written, pinArg, pinRet, polyArg, polyRet>>

\* SexpDump: the text written for a tree (the tree itself stands for its text)
SexpDump(sexp) == sexp

\* main: one turn of "for i in library.Modules" under "Generating KiCad
\* library": open (path, 'w') creates the file, then the tree is built and dumped
WriteModule ==
    /\ pc = "generate"
    /\ Len(written) < Len(library.Modules)
    /\ LET m == library.Modules[Len(written) + 1]
           x == PCBmodule_kicad_sexp(m, args)
       IN  IF x.err # ""
           THEN /\ written' = Append(written, [path |-> m.Name, content |-> <<>>])
                /\ Raise(x.err, None)
           ELSE /\ written' = Append(written, [path |-> m.Name, content |-> SexpDump(x.sexp)])
                /\ UNCHANGED <<pc, err>>
    /\ UNCHANGED <<args, fileNo, library, handles, pinArg, pinRet, polyArg, polyRet>>

\* main returns
EndGenerate ==
    /\ pc = "generate"
    /\ Len(written) = Len(library.Modules)
    /\ pc' = "done"
    /\ UNCHANGED <<args, fileNo, library, handles, written, err, pinArg, pinRet, polyArg, polyRet>>

Next ==
    \/ LoadFile
    \/ EndLoad
    \/ StripLmn
    \/ Add3dModels
    \/ AddCourtyard
    \/ FakeTimestamps
    \/ WriteModule
    \/ EndGenerate

Spec == Init /\ [][Next]_vars

--------------------------------------------------------------------------
(* Pin.kicad_sexp on its own: every pin and every rounded-pad setting *)

MaxCoord == 1

PinCoords == {Nm(x) : x \in -MaxCoord..MaxCoord}

APad == [Shape |-> 1, Width |-> Nm(1), Len1 |-> Nm(2), Len2 |-> Nm(1), CornRad |-> 0]

Pins ==
    {[kind |-> "Pin", ModName |-> mn, Name |-> n, DrillDiam |-> d, Coords |-> <<x, y>>,
      Angle |-> a, TopPad |-> t, InnerPad |-> None, BottomPad |-> None] :
        mn \in {NameA, NameBL}, n \in {"1", "2"}, d \in {0, Nm(3)},
        x \in PinCoords, y \in PinCoords, a \in {0, 45, 90}, t \in {None, <<APad>>}}

ExceptionLists == {<<>>, <<NameA>>, <<<<"B">>>>}

PinArgs ==
    {[infile |-> <<>>, threedmap |-> None, roundedpads |-> r, rpexceptions |-> rp,
      rcexceptions |-> rc, strip_lmn |-> FALSE, courtyard |-> None, hashtime |-> FALSE] :
        r \in {"None", "all", "allbut1"}, rp \in ExceptionLists, rc \in ExceptionLists}

InitPin ==
    /\ args \in PinArgs
    /\ pinArg \in Pins
    /\ pinRet = <<>>
    /\ polyArg = <<>>
    /\ polyRet = <<>>
    /\ pc = "pin"
    /\ fileNo = 1
    /\ library = [Modules |-> <<>>, opts |-> "None"]
    /\ handles = {}
    /\ written = <<>>
    /\ err = NoError

CallPinKicadSexp ==
    /\ pc = "pin"
    /\ pinRet' = <<Pin_kicad_sexp(pinArg, args)>>
    /\ pc' = "pin_done"
    /\ UNCHANGED <<args, fileNo, library, handles, written, err, pinArg, polyArg, polyRet>>

NextPin == CallPinKicadSexp

SpecPin == InitPin /\ [][NextPin]_vars

--------------------------------------------------------------------------
(* Polyline.create_from_freepcb and Polyline.kicad_sexp on their own *)

MaxCorners == 2

\* the coordinate texts of a corner
CornerTexts == {"-1", "0", "1"}

\* next_corner records: every list of up to MaxCorners corners
CornerLists ==
    UNION {[1..n -> {Line(4, "next_corner", <<x, y, "0">>) : x \in CornerTexts, y \in CornerTexts}] :
              n \in 0..MaxCorners}

\* one polyline group as a file holds it, with the line that follows it
PolylineInputs ==
    {<<Line(2, "outline_polyline", <<"1", x, y>>)>> \o cs \o cl \o <<BlankLine>> :
        x \in CornerTexts, y \in CornerTexts, cs \in CornerLists,
        cl \in {<<>>, <<Line(4, "close_polyline", <<"0">>)>>}}

InitPolyline ==
    /\ args \in {a \in PinArgs : a.roundedpads = "None" /\ a.rpexceptions = <<>> /\ a.rcexceptions = <<>>}
    /\ polyArg \in PolylineInputs
    /\ polyRet = <<>>
    /\ pc = "polyline"
    /\ fileNo = 1
    /\ library = [Modules |-> <<>>, opts |-> "None"]
    /\ handles = {}
    /\ written = <<>>
    /\ err = NoError
    /\ pinArg = NoPin
    /\ pinRet = <<>>

\* the polyline is built from its records
CallCreateFromFreepcb ==
    /\ pc = "polyline"
    /\ polyRet' = <<Polyline_create_from_freepcb(FreePCBfile(polyArg))>>
    /\ pc' = IF polyRet'[1].err = "" THEN "polyline_built" ELSE "error"
    /\ UNCHANGED <<args, fileNo, library, handles, written, err, pinArg, pinRet, polyArg>>

\* and emitted
CallPolylineKicadSexp ==
    /\ pc = "polyline_built"
    /\ polyRet' = Append(polyRet, Polyline_kicad_sexp(polyRet[1].obj))
    /\ pc' = "polyline_done"
    /\ UNCHANGED <<args, fileNo, library, handles, written, err, pinArg, pinRet, polyArg>>

NextPolyline == CallCreateFromFreepcb \/ CallPolylineKicadSexp

SpecPolyline == InitPolyline /\ [][NextPolyline]_vars

--------------------------------------------------------------------------
(* Library.strip_lmn on its own: every short name over the letters it tests *)

MaxNameLen == 2

NameLetters == {"A", "L", "M", "N", "l", "m", "n"}

StripNames == UNION {[1..n -> NameLetters] : n \in 1..MaxNameLen}

\* the module a file with one footprint of that name gives
ParsedModule(name) == Library(ModuleOf(name) \o <<BlankLine>>, Limbs(0, 1)).obj[1]

\* libraries of one module, or of one module followed by BL
StripLibraries ==
    {<<ParsedModule(n)>> : n \in StripNames}
    \cup {<<ParsedModule(n), ParsedModule(NameBL)>> : n \in StripNames}

InitStrip ==
    /\ args \in {a \in PinArgs : a.roundedpads = "None" /\ a.rpexceptions = <<>> /\ a.rcexceptions = <<>>}
    /\ library \in {[Modules |-> l, opts |-> "args"] : l \in StripLibraries}
    /\ pc = "strip_lmn"
    /\ fileNo = 1
    /\ handles = {}
    /\ written = <<>>
    /\ err = NoError
    /\ pinArg = NoPin
    /\ pinRet = <<>>
    /\ polyArg = <<>>
    /\ polyRet = <<>>

\* library.strip_lmn ()
CallStripLmn ==
    /\ pc = "strip_lmn"
    /\ LET r == Library_strip_lmn(library.Modules, 1) IN
       /\ library' = [library EXCEPT !.Modules = r.mods]
       /\ IF r.err # "" THEN Raise(r.err, None) ELSE pc' = "strip_lmn_done" /\ err' = err
    /\ UNCHANGED <<args, fileNo, handles, written, pinArg, pinRet, polyArg, polyRet>>

NextStrip == CallStripLmn

SpecStrip == InitStrip /\ [][NextStrip]_vars

--------------------------------------------------------------------------
(* Properties *)

ModuleNames(mods) == {mods[i].Name : i \in 1..Len(mods)}

\* C1: a run that ends in a fatal error has opened no output file by the
\* time the error is raised.
C1_AllOrNothing == pc = "error" => written = <<>>

\* C2: merging a parsed sublibrary into the library: with disjoint names the
\* library becomes its modules followed by the sublibrary's, in order; with a
\* shared name the run fails with a duplicate error naming a shared module and
\* the library's module list is unchanged.
C2_MergeStep ==
    LET sub == Library(FileContent[args.infile[fileNo]], Limbs(0, 0))
        n   == Len(library.Modules)
        k   == Len(sub.obj)
        untimed(m) == [m EXCEPT !.tedit = Limbs(0, 0)]
    IN  (pc = "load" /\ fileNo <= Len(args.infile) /\ sub.err = "")
        => IF ModuleNames(library.Modules) \cap ModuleNames(sub.obj) = {}
           THEN /\ pc' = "load"
                /\ Len(library'.Modules) = n + k
                /\ SubSeq(library'.Modules, 1, n) = library.Modules
                /\ \A i \in 1..k : untimed(library'.Modules[n + i]) = sub.obj[i]
           ELSE /\ pc' = "error"
                /\ err'.kind = "Duplicate module name"
                /\ err'.name \in ModuleNames(library.Modules) \cap ModuleNames(sub.obj)
                /\ library'.Modules = library.Modules

C2_Merge == [][C2_MergeStep]_vars

\* C2 witness: two non-empty libraries with disjoint names have been merged
C2_Witness == pc = "load" /\ fileNo = 3 /\ Len(library.Modules) = 3

\* C3: the module names of the library are pairwise distinct in every state.
C3_UniqueNames ==
    \A i, j \in 1..Len(library.Modules) :
        i # j => library.Modules[i].Name # library.Modules[j].Name

\* C4: the shape of an emitted surface-mount pad follows the precedence:
\* mode unset -> rect; else pin at (0,0) and a center exception matches ->
\* rect; else a general exception matches -> rect; else mode all -> oval,
\* mode allbut1 -> rect for pin "1" and oval for any other pin.
C4_SmdPrecedence ==
    LET matches(list) == \E i \in 1..Len(list) : RegexMatch(list[i], pinArg.ModName)
        expected ==
            IF args.roundedpads = "None" THEN "rect"
            ELSE IF pinArg.Coords = <<0, 0>> /\ matches(args.rcexceptions) THEN "rect"
            ELSE IF matches(args.rpexceptions) THEN "rect"
            ELSE IF args.roundedpads = "all" THEN "oval"
            ELSE IF pinArg.Name = "1" THEN "rect" ELSE "oval"
    IN  (pc = "pin_done" /\ pinArg.DrillDiam = 0 /\ pinArg.TopPad # None
            /\ pinArg.Angle \in {0, 90})
        => /\ pinRet[1].err = ""
           /\ pinRet[1].sexp[1].type = "smd"
           /\ pinRet[1].sexp[1].shape = expected

\* C4 witness: a center pad of an excepted module under mode all, no general exception
C4_Witness ==
    /\ pc = "pin_done"
    /\ pinArg.DrillDiam = 0 /\ pinArg.Coords = <<0, 0>> /\ pinArg.ModName = NameA
    /\ args.roundedpads = "all" /\ args.rcexceptions = <<NameA>> /\ args.rpexceptions = <<>>
    /\ pinRet[1].err = "" /\ pinRet[1].sexp[1].shape = "rect"

\* C5: a through-hole pin (drill > 0) is emitted as thru_hole with a drill
\* entry, rect when its name is "1" and circle otherwise, whatever the
\* rounded-pads mode, the exception lists and the coordinates.
C5_ThroughHole ==
    (pc = "pin_done" /\ pinArg.DrillDiam > 0 /\ pinArg.TopPad # None
        /\ pinArg.Angle \in {0, 90})
    => /\ pinRet[1].err = ""
       /\ pinRet[1].sexp[1].type = "thru_hole"
       /\ pinRet[1].sexp[1].shape = (IF pinArg.Name = "1" THEN "rect" ELSE "circle")
       /\ pinRet[1].sexp[1].drill = <<to_mm(pinArg.DrillDiam)>>

\* C5 witness: pin "1" with a drill, under mode all with no exception, comes out rect
C5_Witness ==
    /\ pc = "pin_done"
    /\ pinArg.DrillDiam > 0 /\ pinArg.Name = "1" /\ pinArg.Coords # <<0, 0>>
    /\ args.roundedpads = "all" /\ args.rpexceptions = <<>> /\ args.rcexceptions = <<>>
    /\ pinRet[1].err = "" /\ pinRet[1].sexp[1].shape = "rect"

\* the courtyard pass has run over the whole library in this step
CourtyardStep == pc = "courtyard" /\ args.courtyard # None /\ pc' = "hashtime"

\* what add_courtyard appends to module m, but for the closed flag: a polyline
\* on F.CrtYd through the five corners of the bounding box widened by s
CourtyardOf(old, new, py) ==
    LET bb == PCBmodule_bounding_box(old, py).box
        s  == from_mm(args.courtyard[1])
        cy == Last(new.Graphics)
    IN  /\ Len(new.Graphics) = Len(old.Graphics) + 1
        /\ Front(new.Graphics) = old.Graphics
        /\ cy.kind = "Polyline"
        /\ cy.Layer = "F.CrtYd"
        /\ cy.Points = <<<<bb[1] - s, bb[3] + s>>, <<bb[2] + s, bb[3] + s>>,
                         <<bb[2] + s, bb[4] - s>>, <<bb[1] - s, bb[4] - s>>,
                         <<bb[1] - s, bb[3] + s>>>>
        /\ Polyline_bounding_box(cy) = <<bb[1] - s, bb[2] + s, bb[3] + s, bb[4] - s>>

\* C6: add_courtyard appends exactly one polyline to each module; it is
\* closed, lies on F.CrtYd and runs through (L-s,T+s), (R+s,T+s), (R+s,B-s),
\* (L-s,B-s), (L-s,T+s), so its bounding box is (L-s, R+s, T+s, B-s); the
\* graphics the module had are unchanged.
C6_CourtyardStep ==
    CourtyardStep =>
        \E py \in PythonVersions :
            \A i \in 1..Len(library.Modules) :
                /\ CourtyardOf(library.Modules[i], library'.Modules[i], py)
                /\ Last(library'.Modules[i].Graphics).Closed

C6_Courtyard == [][C6_CourtyardStep]_vars

\* the part of C6 that does not involve the closed flag
CourtyardGeometryStep ==
    CourtyardStep =>
        \E py \in PythonVersions :
            \A i \in 1..Len(library.Modules) :
                CourtyardOf(library.Modules[i], library'.Modules[i], py)

CourtyardGeometry == [][CourtyardGeometryStep]_vars

\* C7: with hash-time, a module's timestamp after the pass is the 32-bit
\* digest of its tree emitted with timestamp 0 after all other passes, and the
\* module and the file written for it are the same whatever the wall-clock
\* time at which the module was built.
C7_Deterministic ==
    (args.hashtime /\ pc \in {"generate", "done"}) =>
        \A i \in 1..Len(library.Modules) :
            LET m == library.Modules[i]
                z == [m EXCEPT !.tedit = Limbs(0, 0)]
            IN  /\ m.tedit.hi \in 0..65535 /\ m.tedit.lo \in 0..65535
                /\ m.tedit = Md5Low32(PCBmodule_kicad_sexp(z, args).sexp[1])
                /\ \A t \in Clocks :
                      LET other == HashTime([m EXCEPT !.tedit = t], args).mod IN
                      /\ other = m
                      /\ i <= Len(written) =>
                            written[i].content = PCBmodule_kicad_sexp(other, args).sexp

\* C7 witness: a hash-time run over a non-empty library has written its files
C7_Witness ==
    /\ args.hashtime /\ pc = "done" /\ Len(written) = 2
    /\ written[1].content # <<>> /\ written[2].content # <<>>

\* the lines of the file that the next turn of the load loop reads
NextFile == FileContent[args.infile[fileNo]]

\* whether parsing succeeds, and the library it yields
Parsed(lines) ==
    LET r == Library(lines, Limbs(0, 0)) IN
    [ok |-> r.err = "", Modules |-> IF r.err = "" THEN r.obj ELSE <<>>]

InsertBlank(lines, i) == SubSeq(lines, 1, i) \o <<BlankLine>> \o SubSeq(lines, i + 1, Len(lines))

RemoveLine(lines, i) == SubSeq(lines, 1, i - 1) \o SubSeq(lines, i + 1, Len(lines))

\* C8: inserting a blank line at any position of an input stream, or removing
\* one of its blank lines, changes neither whether parsing succeeds nor the
\* library parsed.
C8_BlankLinesInsignificant ==
    (pc = "load" /\ fileNo <= Len(args.infile)) =>
        /\ \A i \in 0..Len(NextFile) : Parsed(InsertBlank(NextFile, i)) = Parsed(NextFile)
        /\ \A i \in 1..Len(NextFile) :
              IsBlank(NextFile[i]) => Parsed(RemoveLine(NextFile, i)) = Parsed(NextFile)

\* a units or centroid record of the file carries an unsupported value
Unsupported(lines) ==
    \E i \in 1..Len(lines) :
        \/ lines[i].key = "units" /\ lines[i].val # <<"NM">>
        \/ lines[i].key = "centroid" /\ lines[i].val # <<"0", "0", "0", "0">>

\* C9: every module of the library has Units "NM" and Centroid "0 0 0 0";
\* a file with a units or centroid record of any other value makes the run
\* fail while loading, with no output written.
C9_UnitsCentroid ==
    /\ \A i \in 1..Len(library.Modules) :
          /\ library.Modules[i].Units = <<"NM">>
          /\ library.Modules[i].Centroid = <<"0", "0", "0", "0">>
    /\ \A k \in 1..Len(args.infile) :
          (Unsupported(FileContent[args.infile[k]]) /\ (fileNo > k \/ pc # "load"))
          => pc = "error" /\ written = <<>>

\* C9 witness: a run over a file with Units MIL has ended in an error
C9_Witness ==
    /\ args.infile = <<"mil">> /\ pc = "error" /\ err.kind = "AssertionError"
    /\ handles = {"mil"} /\ written = <<>>

\* C10: every module has a non-empty Name, Author and Source in every state.
C10_NonEmptyFields ==
    \A i \in 1..Len(library.Modules) :
        /\ library.Modules[i].Name # <<>>
        /\ library.Modules[i].Author # <<>>
        /\ library.Modules[i].Source # <<>>

\* the pins of a module, in order
PinsOf(m) == OfKind(m.Graphics, "Pin")

\* C11: every pin of every module of the library has rotation angle 0 or 90
\* (a pin record with another angle fails at parsing and never gets into the
\* library).
C11_PinAngles ==
    \A i \in 1..Len(library.Modules) :
        \A j \in 1..Len(PinsOf(library.Modules[i])) :
            PinsOf(library.Modules[i])[j].Angle \in {0, 90}

\* the keys a 3D map may hold
Map3dKeys ==
    {"mod", "3dmod", "rotx", "roty", "rotz", "scax", "scay", "scaz", "offx", "offy", "offz"}

\* record k of a 3D map is one the run must fail on
Offending(lines, mods, k) ==
    /\ ~IsBlank(lines[k])
    /\ \/ lines[k].key \notin Map3dKeys
       \/ lines[k].key = "mod" /\ \A i \in 1..Len(mods) : mods[i].Name # lines[k].val
       \/ lines[k].key # "mod" /\ \A j \in 1..(k - 1) : lines[j].key # "mod"

\* C12: processing a 3D map that holds a record with a key outside mod,
\* 3dmod, rot/sca/off + x/y/z, a mod record naming no module of the library,
\* or a parameter record before any mod record ends the run with an error;
\* a record with an unknown key changes no module.
C12_MapStep ==
    (pc = "map3d" /\ args.threedmap # None) =>
        LET lines == MapContent[args.threedmap[1]]
            bad   == {k \in 1..Len(lines) : Offending(lines, library.Modules, k)}
            first == CHOOSE k \in bad : \A j \in bad : k <= j
        IN  bad # {} =>
                /\ pc' = "error"
                /\ lines[first].key \notin Map3dKeys =>
                      library'.Modules =
                          process_3dmap(SubSeq(lines, 1, first - 1), library.Modules).mods

C12_Map3dKeys == [][C12_MapStep]_vars

\* C13: when the run has ended, normally or by an error, no file handle it
\* opened is still open.
C13_HandlesClosed == pc \in {"done", "error"} => handles = {}

\* C14: get_string on a record with a blank value raises "expected value"
\* when allow_blank is false and returns the key with an empty value when it
\* is true; so a file whose n_pins record has no value still loads.
C14_AllowBlank ==
    /\ (pc = "load" /\ fileNo <= Len(args.infile)) =>
          \A k \in 1..Len(NextFile) :
              LET ff == [File |-> SubSeq(NextFile, k, Len(NextFile)), Lineno |-> k] IN
              (NextFile[k].key # "" /\ NextFile[k].val = <<>>) =>
                  /\ get_string(ff, FALSE).err = "expected value"
                  /\ get_string(ff, TRUE).err = ""
                  /\ get_string(ff, TRUE).key = NextFile[k].key
                  /\ get_string(ff, TRUE).value = <<>>
    /\ (args.infile = <<"npins">> /\ pc = "error") => err.kind # "expected value"

\* the points the records of a polyline group give, in nanometres
RecordPoints(lines) ==
    LET corners == {k \in 1..Len(lines) : lines[k].key = "next_corner"}
        n       == Cardinality(corners)
        first   == <<IntTable[lines[1].val[2]], IntTable[lines[1].val[3]]>>
        open    == [k \in 1..(n + 1) |->
                       IF k = 1 THEN first
                       ELSE <<IntTable[lines[k].val[1]], IntTable[lines[k].val[2]]>>]
    IN  IF \E k \in 1..Len(lines) : lines[k].key = "close_polyline"
        THEN Append(open, first) ELSE open

\* a coordinate of at most a millimetre, in millimetres
Millimetres(nm, negative) ==
    [neg |-> negative, whole |-> 0, frac |-> 2 * (IF nm < 0 THEN -nm ELSE nm)]

\* C15: a polyline with points p1..pn emits n-1 segments, the k-th from pk to
\* pk+1, x kept and y sign-inverted, each on the polyline's layer with its
\* output width; parsed from an outline_polyline record, c next_corner
\* records and a close_polyline record it emits c+1 segments and the last
\* ends where the first starts.
C15_Segments ==
    pc = "polyline_done" =>
        LET pts    == RecordPoints(polyArg)
            c      == Cardinality({k \in 1..Len(polyArg) : polyArg[k].key = "next_corner"})
            closed == \E k \in 1..Len(polyArg) : polyArg[k].key = "close_polyline"
            segs   == polyRet[2]
            out(p) == <<Millimetres(p[1], p[1] < 0), Millimetres(p[2], p[2] > 0)>>
        IN  /\ polyRet[1].obj.Closed = closed
            /\ Len(polyRet[1].obj.Points) = Len(pts)
            /\ Len(segs) = Len(pts) - 1
            /\ Len(segs) = (IF closed THEN c + 1 ELSE c)
            /\ \A k \in 1..Len(segs) :
                  /\ segs[k].tag = "fp_line"
                  /\ segs[k].start = out(pts[k])
                  /\ segs[k].end = out(pts[k + 1])
                  /\ segs[k].layer = "F.SilkS"
                  /\ segs[k].width = "0.15"
            /\ closed => segs[Len(segs)].end = segs[1].start

\* C15 witness: an outline with two corners and a close record has given three segments
C15_Witness ==
    /\ pc = "polyline_done"
    /\ Len(polyArg) = 5 /\ polyArg[4].key = "close_polyline"
    /\ polyArg[1].val = <<"1", "-1", "1">> /\ polyArg[2].val = <<"1", "1", "0">>
    /\ Len(polyRet[2]) = 3
    /\ polyRet[2][1].start[2].neg /\ polyRet[2][3].end[2].neg

\* C16: after the courtyard pass every coordinate of every polyline point is
\* an integer number of nanometres (an even number of half-nanometres).
C16_IntegerNm ==
    pc \in {"hashtime", "generate", "done"} =>
        \A i \in 1..Len(library.Modules) :
            LET pls == OfKind(library.Modules[i].Graphics, "Polyline") IN
            \A j \in 1..Len(pls) :
                \A k \in 1..Len(pls[j].Points) :
                    pls[j].Points[k][1] % 2 = 0 /\ pls[j].Points[k][2] % 2 = 0

\* the names of the modules as the input files give them, in load order
RECURSIVE ParsedNames(_)
ParsedNames(files) ==
    IF files = <<>> THEN <<>>
    ELSE LET mods == Parsed(FileContent[Head(files)]).Modules IN
         [i \in 1..Len(mods) |-> mods[i].Name] \o ParsedNames(Tail(files))

\* the shape of a surface-mount pad of module name under the options
ShapeFor(name, pin, opts) ==
    LET matches(list) == \E i \in 1..Len(list) : RegexMatch(list[i], name) IN
    IF opts.roundedpads = "None" THEN "rect"
    ELSE IF pin.Coords = <<0, 0>> /\ matches(opts.rcexceptions) THEN "rect"
    ELSE IF matches(opts.rpexceptions) THEN "rect"
    ELSE IF opts.roundedpads = "all" THEN "oval"
    ELSE IF pin.Name = "1" THEN "rect" ELSE "oval"

\* C17: the shape of every emitted surface-mount pad is the one the exception
\* lists give for the module's name as parsed, also when strip_lmn has
\* changed the module's name before emission.
C17_ParsedNameMatched ==
    pc \in {"generate", "done"} =>
        \A i \in 1..Len(written) :
            written[i].content # <<>> =>
                LET pins == PinsOf(library.Modules[i]) IN
                \A j \in 1..Len(pins) :
                    pins[j].DrillDiam = 0 =>
                        written[i].content[1].pads[j].shape =
                            ShapeFor(ParsedNames(args.infile)[i], pins[j], args)

\* C17 witness: BM was stripped to B and its center pad still came out rect,
\* by the center exception on BM
C17_Witness ==
    /\ pc = "done" /\ args.strip_lmn /\ args.infile = <<"bm">>
    /\ args.roundedpads = "all" /\ args.rcexceptions = <<NameBM>>
    /\ library.Modules[1].Name = <<"B">>
    /\ written[1].content[1].pads[1].shape = "rect"

\* a module but for its timestamp
Untimed(m) == [m EXCEPT !.tedit = Limbs(0, 0)]

\* C18: emission changes nothing of a module: the hash-time pass changes
\* only tedit, the output pass changes nothing, and with hash-time the tree
\* written is the tree that was hashed, apart from the timestamp.
C18_EmissionStep ==
    /\ (pc = "hashtime" /\ pc' = "generate") =>
          /\ Len(library'.Modules) = Len(library.Modules)
          /\ \A i \in 1..Len(library.Modules) :
                Untimed(library'.Modules[i]) = Untimed(library.Modules[i])
    /\ pc = "generate" =>
          /\ library' = library
          /\ (args.hashtime /\ Len(written') > Len(written) /\ Last(written').content # <<>>) =>
                LET m == library.Modules[Len(written')] IN
                /\ [Last(written').content[1] EXCEPT !.tedit = Hex08X(Limbs(0, 0))]
                       = PCBmodule_kicad_sexp(Untimed(m), args).sexp[1]
                /\ m.tedit = Md5Low32(PCBmodule_kicad_sexp(Untimed(m), args).sexp[1])

C18_ReadOnly == [][C18_EmissionStep]_vars

\* C18 witness: a module with a rotated pin was emitted by the hash-time pass
\* and then written
C18_Witness ==
    /\ args.hashtime /\ pc = "generate" /\ Len(written) >= 1
    /\ written[1].content # <<>>
    /\ \E j \in 1..Len(PinsOf(library.Modules[1])) : PinsOf(library.Modules[1])[j].Angle = 90

\* C19: strip_lmn removes the last character of a name ending in L, M, N, l,
\* m or n and leaves any other name alone; no other field of a module
\* changes and the modules stay as many, in the same order.
C19_StripStep ==
    pc = "strip_lmn" =>
        /\ pc' = "strip_lmn_done"
        /\ Len(library'.Modules) = Len(library.Modules)
        /\ \A i \in 1..Len(library.Modules) :
              LET old == library.Modules[i]
                  new == library'.Modules[i]
                  n   == Len(old.Name)
              IN  /\ new.Name = IF old.Name[n] \in {"L", "M", "N", "l", "m", "n"}
                                THEN SubSeq(old.Name, 1, n - 1) ELSE old.Name
                  /\ [new EXCEPT !.Name = old.Name] = old

C19_Strip == [][C19_StripStep]_vars

\* C19 witness: a two-letter name ending in a lower-case letter lost that
\* letter only, beside BL which became B
C19_Witness ==
    /\ pc = "strip_lmn_done" /\ Len(library.Modules) = 2
    /\ library.Modules[1].Name = <<"l">> /\ library.Modules[2].Name = <<"B">>

====
